---- MODULE Spec2Model ----
(***************************************************************************)
(* Model of the partition-aware round-robin leader elector                 *)
(* (consensus/src/leader.rs) and of the firewall-aware transport           *)
(* (network/src/delayed_sender.rs).                                        *)
(*                                                                         *)
(* Two specifications share the module's variables:                        *)
(*   SpecLeader  the elector: inputs drawn in LeaderInit, one Elect step   *)
(*               per round of the driver;                                  *)
(*   Spec        one DelayedSender, its caller and its Connection actors.  *)
(* Endpoints (SocketAddr) are integers: their order is the total order of  *)
(* SocketAddr that addresses.sort() uses.                                  *)
(***************************************************************************)
EXTENDS Integers, Sequences, FiniteSets, TLC

VARIABLES
    \* ---- leader elector (leader.rs) ----
    committee,     \* Committee.authorities: PublicKey -> [address]
    keysIter,      \* the order in which authorities.keys() enumerates
    valuesIter,    \* the order in which authorities.values() enumerates
    el_firewall,   \* get_leader's firewall argument (virtual endpoints)
    el_dns,        \* get_leader's dns argument (real -> virtual endpoint)
    leaders,       \* outcomes of get_leader for rounds 0, 1, 2, ...
    \* ---- delayed sender (delayed_sender.rs) ----
    firewall,      \* DelayedSender.firewall: epoch index -> set of virtual endpoints
    dns,           \* DelayedSender.dns: real -> virtual endpoint
    connections,   \* DelayedSender.connections: real endpoint -> mailbox (Connection id)
    conns,         \* the Connection actors spawned so far, by id
    caller,        \* the task that owns the sender: its position in send/broadcast
    sends          \* number of invocations of send so far; the n-th one carries payload n

leaderVars == <<committee, keysIter, valuesIter, el_firewall, el_dns, leaders>>
senderVars == <<firewall, dns, connections, conns, caller, sends>>
vars == <<committee, keysIter, valuesIter, el_firewall, el_dns, leaders,
          firewall, dns, connections, conns, caller, sends>>

(***************************************************************************)
(* Bounds of the model.                                                    *)
(***************************************************************************)
\* virtual endpoints are 1..NumEndpoints
NumEndpoints == 3
\* the driver asks for the leaders of rounds 0..MaxRound
MaxRound == 5

(***************************************************************************)
(* Generic helpers.                                                        *)
(***************************************************************************)
\* the enumerations (without repetition) of a finite set
Perms(S) == {p \in [1..Cardinality(S) -> S] : \A i, j \in 1..Cardinality(S) : p[i] = p[j] => i = j}

Min(a, b) == IF a <= b THEN a ELSE b

\* the task that owns the sender, between two calls: `op`, `addresses`, `nodes`
\* are the call in progress and its arguments, `queue` the peers still to be
\* sent to, `log` what the sends of the call did, `tx` a mailbox not yet
\* registered
IdleCaller ==
    [pc |-> "idle", op |-> "none", addresses |-> <<>>, nodes |-> 0,
     queue |-> <<>>, first |-> 0, log |-> <<>>, tx |-> 0]

(***************************************************************************)
(* Leader elector: the Committee.  Its queries (consensus/src/config.rs)   *)
(* are modelled after section 6 of the specification.                      *)
(***************************************************************************)
PublicKeys == {"A", "B", "C"}

\* the real endpoint each authority is configured with
AuthorityAddress == [k \in PublicKeys |-> CASE k = "A" -> 1 [] k = "B" -> 2 [] OTHER -> 3]

RealAddresses == {AuthorityAddress[k] : k \in PublicKeys}

Endpoints == 1..NumEndpoints

\* the committees of the model: every non-empty subset of the authorities
Committees ==
    {[k \in members |-> [address |-> AuthorityAddress[k]]] : members \in (SUBSET PublicKeys) \ {{}}}

\* Committee::address(&key): the authority's real endpoint
CommitteeAddress(c, key) == c[key].address

\* the address maps of the model: partial maps real endpoint -> virtual endpoint
DnsMaps == UNION {[d -> Endpoints] : d \in SUBSET RealAddresses}

\* Committee::size_by_firewall(firewall): the number of members the endpoint
\* set does not exclude (spec: "count not excluded", equal to len(eligible))
size_by_firewall(c, fw, d) ==
    Cardinality({k \in DOMAIN c : ~(CommitteeAddress(c, k) \in DOMAIN d /\ d[CommitteeAddress(c, k)] \in fw)})

(***************************************************************************)
(* Leader elector: RRLeaderElector::get_leader, step by step.              *)
(***************************************************************************)
RECURSIVE InsertSorted(_, _)
InsertSorted(s, x) ==
    IF s = <<>> THEN <<x>>
    ELSE IF x < Head(s) THEN <<x>> \o s
    ELSE <<Head(s)>> \o InsertSorted(Tail(s), x)

\* a sort that is left out: the addresses stay in values() order
SortAddresses_omitted(s) == s

\* addresses.sort(): ascending, duplicates kept
RECURSIVE SortAddresses(_)
SortAddresses(s) ==
    IF s = <<>> THEN <<>> ELSE InsertSorted(SortAddresses(SubSeq(s, 1, Len(s) - 1)), s[Len(s)])

\* line 21: values.iter().map(|x| dns[&x.address]); every index must resolve
ResolvedAddresses(c, vals, d) == [i \in DOMAIN vals |-> d[CommitteeAddress(c, vals[i])]]

\* lines 26-30: the keys (in keys() order) that resolve to `address`
KeysAt(c, keys, d, address) ==
    SelectSeq(keys, LAMBDA key : d[CommitteeAddress(c, key)] = address)

\* the candidates taken in keys() order instead of sorted-address order
KeysOrder_iteration(c, keys, d, addresses) == keys

\* lines 25-31: for each sorted address, append every key resolving to it
RECURSIVE KeysOrder(_, _, _, _)
KeysOrder(c, keys, d, addresses) ==
    IF addresses = <<>> THEN <<>>
    ELSE KeysAt(c, keys, d, Head(addresses)) \o KeysOrder(c, keys, d, Tail(addresses))

\* the mask with its two branches swapped
Indices_swapped(addresses, fw) == [i \in DOMAIN addresses |-> addresses[i] \in fw]

\* lines 33-41: one mask entry per sorted address, false iff firewalled
Indices(addresses, fw) == [i \in DOMAIN addresses |-> ~(addresses[i] \in fw)]

\* line 44: keys_order.retain(|_| *iter.next().unwrap()) when the mask is long enough
Retain(keys_order, indices) ==
    LET kept == {i \in DOMAIN keys_order : indices[i]}
        RECURSIVE Pick(_)
        Pick(i) == IF i > Len(keys_order) THEN <<>>
                   ELSE (IF i \in kept THEN <<keys_order[i]>> ELSE <<>>) \o Pick(i + 1)
    IN  Pick(1)

\* a panic that is caught and answered with a fixed identity
Panic_defaultLeader(line) == [kind |-> "ok", key |-> "A"]

\* the task unwinds at `line` of leader.rs: no value is returned
Panic(line) == [kind |-> "panic", line |-> line]
Leader(key) == [kind |-> "ok", key |-> key]

\* RRLeaderElector::get_leader(round, firewall, dns) with the two enumeration
\* orders of the authorities map made explicit
get_leader(c, keys, vals, round, fw, d) ==
    IF \E k \in DOMAIN c : CommitteeAddress(c, k) \notin DOMAIN d
    THEN Panic(21)                               \* dns[&x.address]: no entry
    ELSE
      LET addresses  == SortAddresses(ResolvedAddresses(c, vals, d))
          keys_order == KeysOrder(c, keys, d, addresses)
          indices    == Indices(addresses, fw)
      IN  IF Len(keys_order) > Len(indices)
          THEN Panic(44)                         \* iter.next().unwrap() on None
          ELSE
            LET retained == Retain(keys_order, indices)
                n        == size_by_firewall(c, fw, d)
            IN  IF n = 0 THEN Panic(45)          \* remainder with a divisor of zero
                ELSE IF (round % n) + 1 > Len(retained) THEN Panic(45)  \* index out of bounds
                ELSE Leader(retained[(round % n) + 1])

(***************************************************************************)
(* Leader elector: the specification SpecLeader.                           *)
(***************************************************************************)
SenderIdle ==
    /\ firewall = <<>>
    /\ dns = <<>>
    /\ connections = <<>>
    /\ conns = <<>>
    /\ caller = IdleCaller
    /\ sends = 0

LeaderInit ==
    /\ committee \in Committees
    /\ keysIter \in Perms(DOMAIN committee)
    /\ valuesIter \in Perms(DOMAIN committee)
    /\ el_firewall \in SUBSET Endpoints
    /\ el_dns \in DnsMaps
    /\ leaders = <<>>
    /\ SenderIdle

\* the driver asks for the leader of the next round; a panic ends the task
Elect ==
    /\ Len(leaders) <= MaxRound
    /\ \A i \in DOMAIN leaders : leaders[i].kind = "ok"
    /\ leaders' = Append(leaders, get_leader(committee, keysIter, valuesIter, Len(leaders), el_firewall, el_dns))
    /\ UNCHANGED <<committee, keysIter, valuesIter, el_firewall, el_dns>>
    /\ UNCHANGED senderVars

NextLeader == Elect

SpecLeader == LeaderInit /\ [][NextLeader]_vars

(***************************************************************************)
(* Delayed sender: construction.                                           *)
(***************************************************************************)
\* the real endpoints of the peers
PeerAddresses == {1, 2}

\* the virtual endpoints the peers may resolve to
VirtualAddresses == {1, 2}

\* the epoch indices a schedule may have as keys
EpochIndices == {0, 1}

\* the sets of excluded virtual endpoints a schedule entry may hold
FirewallSets == {{}, {1}}

\* DelayedSender.firewall: HashMap<u64, Vec<SocketAddr>>
Schedules == UNION {[e -> FirewallSets] : e \in SUBSET EpochIndices}

\* DelayedSender.dns: HashMap<SocketAddr, SocketAddr>: no entry at all (as
\* Default builds it), or every peer resolved to a virtual endpoint of its own
SenderDnsMaps ==
    {<<>>} \cup {d \in [PeerAddresses -> VirtualAddresses] : \A a, b \in PeerAddresses : d[a] = d[b] => a = b}

\* mailbox capacity: channel(1_000), scaled down so that backpressure is reachable
ChannelCapacity == 2
\* send is invoked at most MaxSends times, over all calls of send, broadcast
\* and lucky_broadcast
MaxSends == 3

\* DelayedSender::default(): new(HashMap::new(), 20000, 10, HashMap::new())
DefaultSender(fw, d) == fw = <<>> /\ d = <<>>

\* DelayedSender::new(firewall, round, network_delay, dns): empty registry
\* (allow_communications_at_round and network_delay are stored and never read)
SenderInit ==
    /\ firewall \in Schedules
    /\ dns \in SenderDnsMaps
    /\ connections = <<>>
    /\ conns = <<>>
    /\ caller = IdleCaller
    /\ sends = 0

(***************************************************************************)
(* Delayed sender: Connection actors and their mailboxes.                  *)
(***************************************************************************)
\* Connection::spawn(address, rx): a new actor, about to dial
NewConnection(address) ==
    [address |-> address, state |-> "Connecting", mailbox |-> <<>>, handed |-> <<>>, written |-> <<>>]

\* a full mailbox taken for a dead one (try_send in place of send(..).await)
ReceiverDropped_orFull(c) == c.state = "Closed" \/ Len(c.mailbox) >= ChannelCapacity

\* the receiver half is dropped when run() returns: the channel is closed
ReceiverDropped(c) == c.state = "Closed"

\* a mailbox that takes payloads only once its Connection has dialled
HasCapacity_onceOpen(c) == Len(c.mailbox) < ChannelCapacity /\ c.state = "Open"

\* the channel of line 60 has a free slot: tx.send(..).await completes at once
HasCapacity(c) == Len(c.mailbox) < ChannelCapacity

\* a mailbox that queues at the front
Enqueue_front(mailbox, data) == <<data>> \o mailbox

\* tx.send(data) succeeding: the payload is queued at the back of the mailbox
Enqueue(mailbox, data) == Append(mailbox, data)

\* a handoff that reports Ok and drops the payload
HandOver_dropped(cs, i, data) == cs

\* tx.send(data).await returning Ok on connection i
HandOver(cs, i, data) ==
    [cs EXCEPT ![i].mailbox = Enqueue(@, data), ![i].handed = Append(@, data)]

\* an actor that dials again after a failure instead of returning
Close_redial(cs, i) == [cs EXCEPT ![i].state = "Connecting"]

\* run() returning: the actor is gone, what its mailbox still held is dropped
\* (`handed` records the handoffs to a mailbox whose receiver lives)
Close(cs, i) == [cs EXCEPT ![i].state = "Closed", ![i].mailbox = <<>>, ![i].handed = <<>>]

\* lines 134-135: TcpStream::connect succeeded
DialOk(i) ==
    /\ conns[i].state = "Connecting"
    /\ conns' = [conns EXCEPT ![i].state = "Open"]
    /\ UNCHANGED <<firewall, dns, connections, caller, sends, leaderVars>>

\* lines 136-142: TcpStream::connect failed: log and return
DialFail(i) ==
    /\ conns[i].state = "Connecting"
    /\ conns' = Close(conns, i)
    /\ UNCHANGED <<firewall, dns, connections, caller, sends, leaderVars>>

\* a write that leaves the payload in the mailbox (kept until acknowledged)
WriteOk_keep(i) ==
    /\ conns[i].state = "Open"
    /\ conns[i].mailbox # <<>>
    /\ Len(conns[i].written) < MaxSends
    /\ conns' = [conns EXCEPT ![i].written = Append(@, Head(conns[i].mailbox))]
    /\ UNCHANGED <<firewall, dns, connections, caller, sends, leaderVars>>

\* lines 150-151: take the oldest payload of the mailbox and write it to the socket
WriteOk(i) ==
    /\ conns[i].state = "Open"
    /\ conns[i].mailbox # <<>>
    /\ conns' = [conns EXCEPT ![i].mailbox = Tail(@), ![i].written = Append(@, Head(conns[i].mailbox))]
    /\ UNCHANGED <<firewall, dns, connections, caller, sends, leaderVars>>

\* lines 151-154: writer.send failed: the payload is lost, log and return
WriteFail(i) ==
    /\ conns[i].state = "Open"
    /\ conns[i].mailbox # <<>>
    /\ conns' = Close(conns, i)
    /\ UNCHANGED <<firewall, dns, connections, caller, sends, leaderVars>>

\* lines 156-166: reader.next() yields an error or the end of the stream
\* (a reply, Some(Ok(_)), is sunk and changes nothing)
ReadFail(i) ==
    /\ conns[i].state = "Open"
    /\ conns' = Close(conns, i)
    /\ UNCHANGED <<firewall, dns, connections, caller, sends, leaderVars>>

(***************************************************************************)
(* Delayed sender: send, broadcast, lucky_broadcast.  The caller owns the  *)
(* sender (&mut self): one call at a time, suspended only at the awaits of *)
(* lines 80 and 88.                                                        *)
(***************************************************************************)
\* the address lists a caller may pass: the enumerations of the sets of peers
AddressLists == UNION {Perms(peers) : peers \in SUBSET PeerAddresses}

\* addresses.shuffle(&mut self.rng): any permutation the shuffle source may produce
Shuffles(addresses) ==
    {[i \in DOMAIN addresses |-> addresses[p[i]]] : p \in Perms(DOMAIN addresses)}

\* truncate left out: every shuffled address is kept
Truncate_omitted(addresses, nodes) == addresses

\* addresses.truncate(nodes)
Truncate(addresses, nodes) == SubSeq(addresses, 1, Min(nodes, Len(addresses)))

\* a call starts: `queue` is the list the loop of broadcast iterates, `log`
\* what each send of the call has done so far; the sends of the call carry
\* the payloads first + 1, first + 2, ...
StartCall(op, addresses, nodes, queue) ==
    /\ caller.pc = "idle"
    /\ sends + Len(queue) <= MaxSends
    /\ sends' = sends + Len(queue)
    /\ caller' = [pc |-> "send",
                  op |-> op, addresses |-> addresses, nodes |-> nodes,
                  queue |-> queue, first |-> sends, log |-> <<>>, tx |-> 0]
    /\ UNCHANGED <<firewall, dns, connections, conns, leaderVars>>

\* the rounds a caller may pass as current_round
CurrentRounds == {0, 1}

\* send(address, data, current_round): current_round is an input that no line
\* of send reads (its only use, line 74, is commented out)
CallSend ==
    \E address \in PeerAddresses, current_round \in CurrentRounds :
        StartCall("send", <<address>>, 0, <<address>>)

\* broadcast(addresses, data, current_round): lines 95-99
CallBroadcast ==
    \E addresses \in AddressLists, current_round \in CurrentRounds :
        StartCall("broadcast", addresses, 0, addresses)

\* lucky_broadcast(addresses, data, nodes, current_round): lines 103-113
CallLuckyBroadcast ==
    \E addresses \in AddressLists, nodes \in 0..Cardinality(PeerAddresses),
       current_round \in CurrentRounds :
        \E shuffled \in Shuffles(addresses) :
            StartCall("lucky_broadcast", addresses, nodes, Truncate(shuffled, nodes))

\* line 75: the key looked up in the schedule, (self.firewall.len()-1) as u64
ConsultedEntry(fw) == Cardinality(DOMAIN fw) - 1

\* line 72 (dns[&address] without an entry) or line 75 (len()-1 on an empty
\* schedule, unwrap() of a missing key): send panics
SendPanics(fw, d, address) ==
    \/ address \notin DOMAIN d
    \/ ConsultedEntry(fw) \notin DOMAIN fw

\* the test made on the real endpoint (as in the commented-out line 74)
Firewalled_real(fw, d, address) == address \in fw[ConsultedEntry(fw)]

\* line 75: the consulted entry contains the peer's virtual endpoint
Firewalled(fw, d, address) == d[address] \in fw[ConsultedEntry(fw)]

\* the payload of the send in progress (data, or data.clone() in broadcast)
Data == caller.first + Len(caller.log) + 1

\* a loop that gives up at the first send that delivered nothing
Advance_stopOnLoss(result) ==
    caller' = [caller EXCEPT !.queue = IF result \in {"dropped", "lost"} THEN <<>> ELSE Tail(@),
                             !.log = Append(@, [address |-> Head(caller.queue), result |-> result]),
                             !.tx = 0,
                             !.pc = "send"]

\* the send for the head of the queue returns; the loop of broadcast goes on
Advance(result) ==
    caller' = [caller EXCEPT !.queue = Tail(@),
                             !.log = Append(@, [address |-> Head(caller.queue), result |-> result]),
                             !.tx = 0,
                             !.pc = "send"]

\* the caller is at the top of send for the head of the queue
AtSend == caller.pc = "send" /\ caller.queue # <<>>

\* the loop of broadcast is over (or the single send has returned): the call
\* returns to the owner of the sender
Return ==
    /\ caller.pc = "send"
    /\ caller.queue = <<>>
    /\ caller' = IdleCaller
    /\ UNCHANGED <<firewall, dns, connections, conns, sends, leaderVars>>

\* the firewall test of line 75 has let the send of the head of the queue through
PassedFirewall ==
    \/ caller.pc = "reuse"
    \/ /\ AtSend
       /\ ~SendPanics(firewall, dns, Head(caller.queue))
       /\ ~Firewalled(firewall, dns, Head(caller.queue))

\* lines 72-75 panic: the calling task unwinds
SendPanic ==
    /\ AtSend
    /\ SendPanics(firewall, dns, Head(caller.queue))
    /\ caller' = [caller EXCEPT !.pc = "panicked"]
    /\ UNCHANGED <<firewall, dns, connections, conns, sends, leaderVars>>

\* line 75 false: the body of the if is skipped and send returns
SendFirewalled ==
    /\ AtSend
    /\ ~SendPanics(firewall, dns, Head(caller.queue))
    /\ Firewalled(firewall, dns, Head(caller.queue))
    /\ Advance("dropped")
    /\ UNCHANGED <<firewall, dns, connections, conns, sends, leaderVars>>

\* lines 78-82: the registry has a mailbox, tx.send(data.clone()) is Ok
SendReuse ==
    /\ PassedFirewall
    /\ Head(caller.queue) \in DOMAIN connections
    /\ LET i == connections[Head(caller.queue)]
       IN  /\ ~ReceiverDropped(conns[i])
           /\ HasCapacity(conns[i])
           /\ conns' = HandOver(conns, i, Data)
    /\ Advance("reused")
    /\ UNCHANGED <<firewall, dns, connections, sends, leaderVars>>

\* line 80: the mailbox is full: the caller is suspended in tx.send(..).await
SendBlocked ==
    /\ AtSend
    /\ PassedFirewall
    /\ Head(caller.queue) \in DOMAIN connections
    /\ LET i == connections[Head(caller.queue)]
       IN  ~ReceiverDropped(conns[i]) /\ ~HasCapacity(conns[i])
    /\ caller' = [caller EXCEPT !.pc = "reuse"]
    /\ UNCHANGED <<firewall, dns, connections, conns, sends, leaderVars>>

\* lines 80, 86: tx.send on the registered mailbox is Err (its receiver is
\* gone): spawn_connection
SendRetry ==
    /\ PassedFirewall
    /\ Head(caller.queue) \in DOMAIN connections
    /\ ReceiverDropped(conns[connections[Head(caller.queue)]])
    /\ conns' = Append(conns, NewConnection(Head(caller.queue)))
    /\ caller' = [caller EXCEPT !.pc = "handoff", !.tx = Len(conns) + 1]
    /\ UNCHANGED <<firewall, dns, connections, sends, leaderVars>>

\* lines 78, 86: no mailbox registered for the peer: spawn_connection
SendSpawn ==
    /\ AtSend
    /\ PassedFirewall
    /\ Head(caller.queue) \notin DOMAIN connections
    /\ conns' = Append(conns, NewConnection(Head(caller.queue)))
    /\ caller' = [caller EXCEPT !.pc = "handoff", !.tx = Len(conns) + 1]
    /\ UNCHANGED <<firewall, dns, connections, sends, leaderVars>>

\* an insert that keeps the mailbox already registered (entry().or_insert(tx))
Insert_keepOld(registry, address, tx) ==
    [a \in DOMAIN registry \cup {address} |-> IF a \in DOMAIN registry THEN registry[a] ELSE tx]

\* self.connections.insert(address, tx)
Insert(registry, address, tx) ==
    [a \in DOMAIN registry \cup {address} |-> IF a = address THEN tx ELSE registry[a]]

\* lines 88-90: tx.send(data) on the new mailbox is Ok: register the mailbox
SendHandoffOk ==
    /\ caller.pc = "handoff"
    /\ ~ReceiverDropped(conns[caller.tx])
    /\ conns' = HandOver(conns, caller.tx, Data)
    /\ connections' = Insert(connections, Head(caller.queue), caller.tx)
    /\ Advance("handed")
    /\ UNCHANGED <<firewall, dns, sends, leaderVars>>

\* line 88: the new Connection has already returned (its dial failed): tx.send
\* is Err, nothing is registered, tx is dropped
SendHandoffErr ==
    /\ caller.pc = "handoff"
    /\ ReceiverDropped(conns[caller.tx])
    /\ Advance("lost")
    /\ UNCHANGED <<firewall, dns, connections, conns, sends, leaderVars>>

\* a drop that also ends the Open actors whose mailbox is drained (as if
\* recv() yielding None made run() return)
Discard_closing ==
    /\ caller.pc = "idle"
    /\ connections' = <<>>
    /\ caller' = [IdleCaller EXCEPT !.pc = "discarded"]
    /\ conns' = [i \in DOMAIN conns |->
                    IF conns[i].state = "Open" /\ conns[i].mailbox = <<>>
                    THEN [conns[i] EXCEPT !.state = "Closed", !.handed = <<>>]
                    ELSE conns[i]]
    /\ UNCHANGED <<firewall, dns, sends, leaderVars>>

\* the owner drops the DelayedSender: the registry and its mailbox handles go
Discard ==
    /\ caller.pc = "idle"
    /\ connections' = <<>>
    /\ caller' = [IdleCaller EXCEPT !.pc = "discarded"]
    /\ UNCHANGED <<firewall, dns, conns, sends, leaderVars>>

(***************************************************************************)
(* Delayed sender: the specification Spec.                                 *)
(***************************************************************************)
LeaderIdle ==
    /\ committee = <<>>
    /\ keysIter = <<>>
    /\ valuesIter = <<>>
    /\ el_firewall = {}
    /\ el_dns = <<>>
    /\ leaders = <<>>

Init == SenderInit /\ LeaderIdle

Next ==
    \/ CallSend
    \/ CallBroadcast
    \/ CallLuckyBroadcast
    \/ SendPanic
    \/ SendFirewalled
    \/ SendReuse
    \/ SendBlocked
    \/ SendRetry
    \/ SendSpawn
    \/ SendHandoffOk
    \/ SendHandoffErr
    \/ Return
    \/ Discard
    \/ \E i \in DOMAIN conns : DialOk(i)
    \/ \E i \in DOMAIN conns : DialFail(i)
    \/ \E i \in DOMAIN conns : WriteOk(i)
    \/ \E i \in DOMAIN conns : WriteFail(i)
    \/ \E i \in DOMAIN conns : ReadFail(i)

Spec == Init /\ [][Next]_vars

(***************************************************************************)
(* Leader elector: properties (checked under SpecLeader).                  *)
(***************************************************************************)
\* every member's real endpoint has an entry in the address map
AllResolve == \A k \in DOMAIN committee : CommitteeAddress(committee, k) \in DOMAIN el_dns

\* the virtual endpoint of a member
Virtual(k) == el_dns[CommitteeAddress(committee, k)]

DistinctVirtual ==
    AllResolve /\ \A j, k \in DOMAIN committee : Virtual(j) = Virtual(k) => j = k

\* the members whose virtual endpoint the firewall does not exclude
NonFirewalled == {k \in DOMAIN committee : Virtual(k) \notin el_firewall}

\* the member at position p (from 0) of NonFirewalled sorted by virtual endpoint
AtSortedPosition(p) ==
    CHOOSE k \in NonFirewalled : Cardinality({j \in NonFirewalled : Virtual(j) < Virtual(k)}) = p

C2_ExcludedNeverElected ==
    \A i \in DOMAIN leaders :
        leaders[i].kind = "ok" =>
            /\ leaders[i].key \in DOMAIN committee
            /\ AllResolve
            /\ Virtual(leaders[i].key) \notin el_firewall

\* three members, the address map reversing their order, the middle one
\* firewalled, and three rounds elected
C2_Witness ==
    /\ DOMAIN committee = {"A", "B", "C"}
    /\ AllResolve /\ Virtual("A") = 3 /\ Virtual("B") = 2 /\ Virtual("C") = 1
    /\ el_firewall = {2}
    /\ Len(leaders) >= 3
    /\ \A i \in DOMAIN leaders : leaders[i].kind = "ok"

\* C3 (as claimed): with every member resolved and E < N members firewalled,
\* every round elects an identity, the leader of round r + (N - E) is the
\* leader of round r, and any N - E consecutive rounds elect pairwise
\* different non-firewalled identities (so each of them exactly once).
C3_PeriodNMinusE ==
    (AllResolve /\ NonFirewalled # {}) =>
        LET M == Cardinality(NonFirewalled)
        IN  \A i \in DOMAIN leaders :
                /\ leaders[i].kind = "ok"
                /\ leaders[i].key \in NonFirewalled
                /\ i > M => leaders[i] = leaders[i - M]
                /\ \A j \in DOMAIN leaders : (j < i /\ i - j < M) => leaders[j] # leaders[i]

\* C4 (as claimed): when the firewall holds every member's virtual endpoint,
\* get_leader reports the error EmptyCandidateSet and does not trap.
C4_EmptyCandidateSetReported ==
    (AllResolve /\ NonFirewalled = {}) =>
        \A i \in DOMAIN leaders :
            leaders[i].kind = "error" /\ leaders[i] = [kind |-> "error", error |-> "EmptyCandidateSet"]

\* C5: the outcome of get_leader for the latest round (the identity elected,
\* or the panic), computed with the enumeration orders of this run (keys()
\* and values() taken independently), is the outcome under every other
\* enumeration order of the authorities map, for every committee, firewall
\* and address map, colliding maps included: all runs agree.
C5_IndependentOfIterationOrder ==
    leaders # <<>> =>
        \A order \in Perms(DOMAIN committee) :
            get_leader(committee, order, order, Len(leaders) - 1, el_firewall, el_dns)
                = leaders[Len(leaders)]

\* an identity elected while keys() and values() enumerate three members in
\* two different orders, neither of them the order of the virtual endpoints
C5_Witness ==
    /\ DOMAIN committee = {"A", "B", "C"}
    /\ AllResolve /\ Virtual("A") = 2 /\ Virtual("B") = 3 /\ Virtual("C") = 1
    /\ keysIter = <<"B", "A", "C">>
    /\ valuesIter = <<"A", "B", "C">>
    /\ Len(leaders) >= 2
    /\ leaders[2] = Leader("A")

\* C12: when some member's real endpoint has no entry in the address map,
\* get_leader panics at the lookup of line 21 for every round and every
\* firewall, whatever the enumeration orders: the election of this run was
\* such a panic and no round returns an identity.
C12_UnresolvedEndpointIsFatal ==
    ~AllResolve =>
        /\ \A i \in DOMAIN leaders : leaders[i].kind = "panic" /\ leaders[i].line = 21
        /\ \A round \in 0..MaxRound :
               LET outcome == get_leader(committee, keysIter, valuesIter, round, el_firewall, el_dns)
               IN  outcome.kind = "panic" /\ outcome.line = 21

\* members A and B, only A's endpoint in the map, a firewall that excludes
\* nobody's endpoint: the election of round 0 has panicked
C12_Witness ==
    /\ DOMAIN committee = {"A", "B"}
    /\ DOMAIN el_dns = {1}
    /\ el_dns[1] \notin el_firewall
    /\ Len(leaders) = 1
    /\ leaders[1].kind = "panic"

\* C18 (as claimed): in every call of get_leader whose members all resolve,
\* colliding address maps included, the candidate list of lines 25-31 holds
\* each member of the committee exactly once and is as long as the mask of
\* lines 33-41.
C18_CandidatesMatchMask ==
    (AllResolve /\ leaders # <<>>) =>
        LET addresses  == SortAddresses(ResolvedAddresses(committee, valuesIter, el_dns))
            keys_order == KeysOrder(committee, keysIter, el_dns, addresses)
            indices    == Indices(addresses, el_firewall)
        IN  /\ Len(keys_order) = Len(indices)
            /\ \A k \in DOMAIN committee :
                   Cardinality({i \in DOMAIN keys_order : keys_order[i] = k}) = 1

(***************************************************************************)
(* Delayed sender: properties (checked under Spec).                        *)
(***************************************************************************)
\* the peer's virtual endpoint is in the schedule entry that send consults
VirtualEndpointExcluded(address) ==
    /\ address \in DOMAIN dns
    /\ (Cardinality(DOMAIN firewall) - 1) \in DOMAIN firewall
    /\ dns[address] \in firewall[Cardinality(DOMAIN firewall) - 1]

IsPrefix(s, t) == Len(s) <= Len(t) /\ SubSeq(t, 1, Len(s)) = s

\* C7: on every Connection that has not returned, the payloads written to the
\* socket followed by those waiting in the mailbox are exactly the payloads
\* handed to the mailbox, in handoff order: what is written is a prefix of
\* what was handed over, so P1 handed before P2 is written before P2.
C7_PerPeerFifo ==
    \A i \in DOMAIN conns :
        conns[i].state # "Closed" =>
            /\ IsPrefix(conns[i].written, conns[i].handed)
            /\ conns[i].written \o conns[i].mailbox = conns[i].handed

\* three sends to one peer over one mailbox: the first payload is written
\* while the second and the third wait, in that order, in the mailbox
C7_Witness ==
    \E i \in DOMAIN conns :
        /\ conns[i].state = "Open"
        /\ conns[i].written = <<1>>
        /\ conns[i].mailbox = <<2, 3>>

\* C8: for every real endpoint at most one Connection of the sender has not
\* returned (is Connecting or Open), and the mailbox the registry holds for
\* an endpoint belongs to a Connection to that endpoint, which is the only
\* one to that endpoint that may still live.
C8_OneLiveConnectionPerEndpoint ==
    /\ \A i, j \in DOMAIN conns :
           (conns[i].address = conns[j].address /\ conns[i].state # "Closed" /\ conns[j].state # "Closed")
               => i = j
    /\ \A a \in DOMAIN connections :
           /\ connections[a] \in DOMAIN conns
           /\ conns[connections[a]].address = a
           /\ \A i \in DOMAIN conns :
                  (conns[i].address = a /\ conns[i].state # "Closed" /\ caller.pc # "handoff")
                      => i = connections[a]

\* a dead mailbox was replaced: two Connections to peer 1 have returned, a
\* third one is Open and registered, next to a live Connection to peer 2
C8_Witness ==
    /\ Len(conns) = 3
    /\ 1 \in DOMAIN connections
    /\ connections[1] = 3
    /\ conns[1].address = 1 /\ conns[1].state = "Closed"
    /\ conns[2].address = 1 /\ conns[2].state = "Closed"
    /\ conns[3].address = 1 /\ conns[3].state = "Open"

\* the peers of the list all resolve and none is firewalled
AllDeliverable(addresses) ==
    /\ (Cardinality(DOMAIN firewall) - 1) \in DOMAIN firewall
    /\ \A i \in DOMAIN addresses :
           /\ addresses[i] \in DOMAIN dns
           /\ dns[addresses[i]] \notin firewall[Cardinality(DOMAIN firewall) - 1]

\* C9: when lucky_broadcast(addresses, data, nodes, round), called with
\* distinct non-firewalled peers, is about to return, it has made exactly
\* min(nodes, |addresses|) sends, to pairwise different peers, each of them in
\* the list, and each send got past the firewall test.
C9_LuckyBroadcastFanOut ==
    (caller.op = "lucky_broadcast" /\ caller.pc = "send" /\ caller.queue = <<>>
        /\ AllDeliverable(caller.addresses)) =>
        /\ Len(caller.log) = (IF caller.nodes <= Len(caller.addresses)
                                THEN caller.nodes ELSE Len(caller.addresses))
        /\ \A i, j \in DOMAIN caller.log : caller.log[i].address = caller.log[j].address => i = j
        /\ \A i \in DOMAIN caller.log :
               /\ \E j \in DOMAIN caller.addresses : caller.addresses[j] = caller.log[i].address
               /\ caller.log[i].result # "dropped"

\* lucky_broadcast(<<1, 2>>, data, 1, round): the shuffle put peer 2 first and
\* the one send of the call went to peer 2
C9_Witness ==
    /\ caller.op = "lucky_broadcast" /\ caller.pc = "send" /\ caller.queue = <<>>
    /\ caller.addresses = <<1, 2>>
    /\ caller.nodes = 1
    /\ AllDeliverable(caller.addresses)
    /\ Len(caller.log) = 1
    /\ caller.log[1].address = 2

\* C10 (as claimed): send always returns normally: the calling task never
\* traps inside send, whatever the sender was built with and whatever the
\* state of the peer's Connection.
C10_SendNeverTraps == caller.pc # "panicked"

(***************************************************************************)
(* Delayed sender: the firewall schedule (checked under Spec).             *)
(***************************************************************************)
\* the highest epoch index of a non-empty schedule
HighestEpoch(fw) == CHOOSE e \in DOMAIN fw : \A x \in DOMAIN fw : x <= e

\* C11 (as claimed): with a non-empty schedule, whatever its keys and whatever
\* current_round, every send of a resolvable peer is decided by the entry
\* with the highest epoch index: it does not trap, and it is dropped exactly
\* when the peer's virtual endpoint is in that entry.
C11_HighestEntryDecides ==
    DOMAIN firewall # {} =>
        /\ (caller.pc = "panicked" => Head(caller.queue) \notin DOMAIN dns)
        /\ \A i \in DOMAIN caller.log :
               caller.log[i].address \in DOMAIN dns =>
                   (caller.log[i].result = "dropped"
                        <=> dns[caller.log[i].address] \in firewall[HighestEpoch(firewall)])

(***************************************************************************)
(* Delayed sender: spawning and registering (checked under Spec).          *)
(***************************************************************************)
\* the send in progress got past line 75 and the registry has no mailbox for
\* its peer, or one whose Connection has returned
NeedsConnection ==
    /\ PassedFirewall
    /\ \/ Head(caller.queue) \notin DOMAIN connections
       \/ conns[connections[Head(caller.queue)]].state = "Closed"

\* such a send spawns one Connection (line 86) and no other before it returns
SpawnsExactlyOne ==
    /\ (NeedsConnection /\ caller' # caller) =>
           /\ Len(conns') = Len(conns) + 1
           /\ conns'[Len(conns')].address = Head(caller.queue)
           /\ SubSeq(conns', 1, Len(conns)) = conns
           /\ caller'.pc = "handoff"
           /\ caller'.tx = Len(conns')
           /\ connections' = connections
    /\ caller.pc = "handoff" => Len(conns') = Len(conns)

\* the send in progress returns from the handoff of lines 88-90
HandoffReturns == caller.pc = "handoff" /\ caller'.pc # "handoff"

\* C13 (as claimed): a send that needs a Connection spawns exactly one, and
\* when it returns the registry entry of the peer is the new mailbox, under
\* every interleaving with the new Connection's dial.
C13_RegistersNewMailboxAlways ==
    [][/\ SpawnsExactlyOne
       /\ HandoffReturns =>
              /\ Head(caller.queue) \in DOMAIN connections'
              /\ connections'[Head(caller.queue)] = caller.tx]_vars

\* C13 (amended): a send that needs a Connection spawns exactly one; when it
\* returns, the registry entry of the peer is the new mailbox if the new
\* Connection had not returned before the handoff, and the registry is left
\* as it was (entry absent, or still the dead mailbox) if its dial had
\* already failed; the other entries never change.
C13_RegistersNewMailboxOnHandoff ==
    [][/\ SpawnsExactlyOne
       /\ HandoffReturns =>
              /\ \A a \in DOMAIN connections \ {Head(caller.queue)} :
                     a \in DOMAIN connections' /\ connections'[a] = connections[a]
              /\ IF conns[caller.tx].state # "Closed"
                 THEN /\ DOMAIN connections' = DOMAIN connections \cup {Head(caller.queue)}
                      /\ connections'[Head(caller.queue)] = caller.tx
                 ELSE connections' = connections]_vars

\* the second send to peer 1 found the registered mailbox dead and spawned
\* Connection 2, whose dial failed before the handoff: the send has returned
\* and the registry still holds the dead mailbox of Connection 1
C13_Witness ==
    /\ caller.pc = "send"
    /\ caller.log # <<>>
    /\ caller.log[Len(caller.log)] = [address |-> 1, result |-> "lost"]
    /\ Len(conns) = 2
    /\ conns[1].state = "Closed" /\ conns[2].state = "Closed"
    /\ 1 \in DOMAIN connections
    /\ connections[1] = 1

(***************************************************************************)
(* Delayed sender: the life of a Connection (checked under Spec).          *)
(***************************************************************************)
\* the state changes a Connection may make
Lifecycle ==
    {<<"Connecting", "Open">>, <<"Connecting", "Closed">>, <<"Open", "Closed">>}

\* C14: a Connection is created Connecting and (never removed) changes state
\* only along Connecting -> Open, Connecting -> Closed, Open -> Closed: no
\* step leads back to Connecting, so it dials once, and none leaves Closed.
\* Once it is Closed nothing is ever queued on it or written by it again: a
\* handoff to it fails (the payload is lost, or, when the dead mailbox was
\* the registered one, a new Connection is spawned).
C14_ConnectionLifecycle ==
    [][/\ \A i \in DOMAIN conns :
              /\ i \in DOMAIN conns'
              /\ conns'[i].address = conns[i].address
              /\ conns'[i].state # conns[i].state =>
                     <<conns[i].state, conns'[i].state>> \in Lifecycle
              /\ conns[i].state = "Closed" => conns'[i] = conns[i]
       /\ \A i \in DOMAIN conns' \ DOMAIN conns :
              conns'[i].state = "Connecting" /\ conns'[i].mailbox = <<>>
       /\ (caller.pc = "handoff" /\ conns[caller.tx].state = "Closed" /\ caller' # caller) =>
              caller'.log = Append(caller.log, [address |-> Head(caller.queue), result |-> "lost"])
       /\ (PassedFirewall /\ Head(caller.queue) \in DOMAIN connections
              /\ conns[connections[Head(caller.queue)]].state = "Closed" /\ caller' # caller) =>
              caller'.pc = "handoff" /\ caller'.tx # connections[Head(caller.queue)]]_vars

\* Connection 1 dialled, wrote payload 1 and returned; the next send to its
\* peer found its mailbox dead and handed payload 2 to Connection 2, which
\* is still Connecting
C14_Witness ==
    /\ Len(conns) = 2
    /\ conns[1].state = "Closed" /\ conns[1].written = <<1>>
    /\ conns[2].state = "Connecting" /\ conns[2].mailbox = <<2>>
    /\ conns[2].address = conns[1].address
    /\ conns[1].address \in DOMAIN connections
    /\ connections[conns[1].address] = 2

(***************************************************************************)
(* Delayed sender: discarding the sender (checked under Spec).             *)
(***************************************************************************)
\* a step of run() of Connection i that is no failure and no close of its
\* established stream
RunsOn(i) == DialOk(i) \/ DialFail(i) \/ WriteOk(i)

\* C15 (as claimed): once the sender is discarded an Open Connection goes on
\* to Closed by itself: as long as it is Open, its actor has a step to take
\* that is neither a failure nor a close of the peer's stream.
C15_DiscardedConnectionExits ==
    \A i \in DOMAIN conns :
        (caller.pc = "discarded" /\ conns[i].state = "Open") => ENABLED <<RunsOn(i)>>_vars

\* C15 (amended): discarding the sender closes no Connection, and after it an
\* Open Connection becomes Closed only by a write failure or by a read
\* failure or close of the peer's stream; it goes on writing what its
\* mailbox still holds, and once the mailbox is drained the only step left
\* to it is that failure of the stream.
C15_DiscardedConnectionStaysOpen ==
    [][\A i \in DOMAIN conns :
          (caller'.pc = "discarded" /\ conns[i].state = "Open") =>
              /\ conns'[i].state = "Closed" => (WriteFail(i) \/ ReadFail(i))
              /\ (conns[i].mailbox = <<>> /\ conns'[i] # conns[i]) => ReadFail(i)]_vars

\* the sender is gone, Connection 1 is Open, has written the payloads handed
\* to it and its mailbox is drained
C15_Witness ==
    /\ caller.pc = "discarded"
    /\ Len(conns) = 1
    /\ conns[1].state = "Open"
    /\ conns[1].written = <<1, 2>>
    /\ conns[1].mailbox = <<>>

(***************************************************************************)
(* Delayed sender: broadcast (checked under Spec).                         *)
(***************************************************************************)
\* the peers of the sends that have returned, in the order they were made
SentTo == [i \in DOMAIN caller.log |-> caller.log[i].address]

\* C16: during broadcast(peers, payload, round), when no send has panicked,
\* the sends that have returned followed by the peers still to be sent to are
\* the list as given: one send per element, in listed order, whatever the
\* earlier sends did (dropped by the firewall, lost on a dead Connection).
\* The sends are made one at a time: the send in progress is for the first
\* peer not yet served, and no payload of a later send is in a mailbox or on
\* a socket before the sends before it have returned.
C16_BroadcastInListedOrder ==
    (caller.op = "broadcast" /\ caller.pc # "panicked") =>
        /\ SentTo \o caller.queue = caller.addresses
        /\ caller.pc \in {"reuse", "handoff"} => caller.queue # <<>>
        /\ \A i \in DOMAIN conns :
               \A j \in DOMAIN (conns[i].written \o conns[i].mailbox) :
                   (conns[i].written \o conns[i].mailbox)[j] <= caller.first + Len(caller.log)

\* broadcast(<<2, 1>>, ..) has returned: the send to peer 2 was lost (its new
\* Connection had failed its dial before the handoff), the send to peer 1 was
\* made after it and handed over
C16_Witness ==
    /\ caller.op = "broadcast" /\ caller.pc = "send" /\ caller.queue = <<>>
    /\ caller.addresses = <<2, 1>>
    /\ caller.log = <<[address |-> 2, result |-> "lost"], [address |-> 1, result |-> "handed"]>>
    /\ 1 \in DOMAIN connections
    /\ 2 \notin DOMAIN connections

(***************************************************************************)
(* Delayed sender: a send with no registered mailbox (checked under Spec). *)
(***************************************************************************)
\* the payloads Connection c holds in its mailbox or has written
Carried(c) == {(c.written \o c.mailbox)[j] : j \in DOMAIN (c.written \o c.mailbox)}

\* the send in progress found no mailbox registered for its peer, has spawned
\* a Connection and is at the handoff of line 88
HandoffWithoutEntry ==
    caller.pc = "handoff" /\ Head(caller.queue) \notin DOMAIN connections

SendProceeds ==
    \/ SendPanic
    \/ SendFirewalled
    \/ SendReuse
    \/ SendRetry
    \/ SendSpawn
    \/ SendHandoffOk
    \/ SendHandoffErr

\* the mailbox registered for the peer of the send in progress is live and
\* holds as many payloads as the channel has slots
RegisteredMailboxFull ==
    /\ Head(caller.queue) \in DOMAIN connections
    /\ conns[connections[Head(caller.queue)]].state # "Closed"
    /\ Len(conns[connections[Head(caller.queue)]].mailbox) >= ChannelCapacity

\* C19: a send in progress can go on (and return, handing over the payload
\* in that same step) exactly when the mailbox registered for its peer is not
\* both live and at capacity, whatever the state of the peer's Connection
\* (Connecting, Open with payloads not yet written, or Closed); at the
\* handoff to a mailbox just created it can always go on.
C19_SendWaitsOnlyForCapacity ==
    (caller.pc \in {"send", "reuse", "handoff"} /\ caller.queue # <<>>) =>
        /\ (ENABLED <<SendProceeds>>_vars) <=> ~RegisteredMailboxFull
        /\ caller.pc = "handoff" => ~RegisteredMailboxFull
        /\ caller.pc = "reuse" => Head(caller.queue) \in DOMAIN connections

\* two sends to one peer have returned, their payloads queued, while the
\* peer's Connection is still dialling and nothing is written
C19_Witness ==
    /\ caller.pc = "send" /\ caller.queue = <<>>
    /\ caller.log # <<>>
    /\ caller.log[Len(caller.log)].result = "reused"
    /\ Len(conns) = 1
    /\ conns[1].state = "Connecting"
    /\ conns[1].mailbox = <<1, 2>>
    /\ conns[1].written = <<>>

(***************************************************************************)
(* Delayed sender: at-most-once (checked under Spec).                      *)
(***************************************************************************)
\* what Connection i has written to its socket, followed by what waits in
\* its mailbox
Held(i) == conns[i].written \o conns[i].mailbox

\* C20: the payload of each invocation of send (one payload number per
\* invocation) occurs at most once in what all the Connections of the sender,
\* the dead ones included, have written or still hold: it is written to a
\* socket at most once in total, and a payload retried on a new Connection is
\* neither on the socket nor in the mailbox of the old one.
C20_AtMostOnce ==
    \A i, k \in DOMAIN conns :
        \A j \in DOMAIN Held(i), l \in DOMAIN Held(k) :
            Held(i)[j] = Held(k)[l] => (i = k /\ j = l)

\* payload 1 was written by Connection 1, which then returned; the send of
\* payload 2 failed on its dead mailbox, was retried on Connection 2 and is
\* written there, once
C20_Witness ==
    /\ Len(conns) = 2
    /\ conns[1].address = conns[2].address
    /\ conns[1].state = "Closed" /\ conns[1].written = <<1>>
    /\ conns[2].state = "Open" /\ conns[2].written = <<2>> /\ conns[2].mailbox = <<>>
    /\ caller.pc = "send"
    /\ caller.log # <<>>
    /\ caller.log[Len(caller.log)].result = "handed"

====
